---------------------------- MODULE Spec2Model ----------------------------
(***************************************************************************)
(* Verification model of the image-normalisation and scan-correction core  *)
(* of Easy-Apply-Backend (app/services/photo_editor.py,                    *)
(* app/services/document_scanner.py, app/services/size_optimizer.py and   *)
(* the endpoints of app/api/endpoints/photo_editor.py).                   *)
(*                                                                         *)
(* The module holds several specifications over one set of variables:     *)
(*   SpecGeom    process_image, steps 1-4 (background removal flag,       *)
(*               face-aware crop / letterbox / direct resize, colour)     *)
(*   SpecEnc     _enforce_file_size_limits, one step per encode           *)
(*   SpecScan    scan_to_pdf, one step per page                           *)
(*   SpecOrder   _order_points on four distinct grid points               *)
(*   SpecBlend   alpha compositing and the contour-fallback blend         *)
(*   SpecRefine  the guided-filter refinement of the alpha matte          *)
(*   SpecStore   what requests leave on disk, and the download lookups    *)
(*   SpecRmbg    _remove_background and its contour fallback              *)
(*   SpecValidate  the form validation of POST /process-single            *)
(*   SpecBatch   process_multiple_images and POST /process-batch          *)
(*   SpecOpt     the quality loop of SizeOptimizerService.optimize_image  *)
(* Each specification leaves the variables of the others at their initial *)
(* values.                                                                 *)
(*                                                                         *)
(* Arithmetic.  The Python code computes sizes with float division and     *)
(* int() truncation.  The model uses exact rational arithmetic            *)
(* (a * b) \div c, less one at the sample dimensions where the            *)
(* IEEE-double result of the source expression falls short of the exact   *)
(* floor (FloatShortDiv).                                                  *)
(***************************************************************************)
EXTENDS Integers, Sequences, FiniteSets, TLC

VARIABLES
    \* ---- process_image (SpecGeom)
    gpc,        \* position in process_image
    req,        \* the request: source size, target size, flags, colour, detectors
    img,        \* the working image `img`
    cropBox,    \* (left, top, right, bottom) handed to image.crop, <<>> if none
    faces,      \* what _detect_faces returned, <<>> before it ran
    newDims,    \* (new_width, new_height) as process_image tracks them
    gerr,       \* the exception that ended process_image, "" if none
    \* ---- _enforce_file_size_limits (SpecEnc)
    epc,          \* position in _enforce_file_size_limits and its caller
    ereq,         \* the call: image size, format, target_size_kb, the codec
    eimg,         \* the image that will be returned
    quality,      \* `quality`
    current_size, \* `current_size`: the last measured encoding
    reencodes,    \* encodes made by the quality sweep
    resizes,      \* resize steps made
    final_size,   \* size of the encoding the caller makes of the result
    \* ---- scan_to_pdf (SpecScan)
    spc, sreq, idx, processed_images, sresult,
    \* ---- _order_points (SpecOrder)
    opc, pts, rect, rectAgain, rectRotated,
    \* ---- compositing (SpecBlend)
    bpc, breq, blendOut,
    \* ---- _refine_background_edges (SpecRefine)
    rpc, rreq, alphaRaw, alphaRefined, alphaByte,
    \* ---- what the services keep on disk and in the database (SpecStore)
    processed_files, \* names in processed_files/
    thumbnails,      \* names in thumbnails/
    scanned_docs,    \* names in scanned_documents/
    history,         \* rows saved through postgresql_client
    issued,          \* how many uuid4 ids have been drawn
    lookup,          \* answer of the last get_processed_file / get_scanned_file
    \* ---- _remove_background (SpecRmbg)
    mpc, mreq, mresult,
    \* ---- request validation of /process-single (SpecValidate)
    vpc, vreq, vresult,
    \* ---- process_multiple_images and /process-batch (SpecBatch)
    kpc,        \* position in the batch request
    kfiles,     \* the uploaded files: name and what process_image does with it
    kidx,       \* files handled so far
    kresults,   \* `results` of process_multiple_images
    kresponse,  \* the BatchProcessResponse, or the error raised
    \* ---- SizeOptimizerService.optimize_image, quality loop (SpecOpt)
    zpc,              \* position in optimize_image
    zreq,             \* compression level, target_size_kb, the codec
    current_quality,  \* `current_quality`
    measured_size,    \* `current_size` as the loop measures it
    optimized_data    \* the quality of the encoding kept, -1 for None

geomVars  == <<gpc, req, img, cropBox, faces, newDims, gerr>>
encVars   == <<epc, ereq, eimg, quality, current_size, reencodes, resizes, final_size>>
scanVars  == <<spc, sreq, idx, processed_images, sresult>>
orderVars == <<opc, pts, rect, rectAgain, rectRotated>>
blendVars == <<bpc, breq, blendOut>>
refineVars == <<rpc, rreq, alphaRaw, alphaRefined, alphaByte>>
storeVars == <<processed_files, thumbnails, scanned_docs, history, issued, lookup>>
rmbgVars == <<mpc, mreq, mresult>>
validateVars == <<vpc, vreq, vresult>>
batchVars == <<kpc, kfiles, kidx, kresults, kresponse>>
optVars == <<zpc, zreq, current_quality, measured_size, optimized_data>>
lastVars == <<batchVars, optVars>>
laterVars == <<storeVars, rmbgVars, validateVars, lastVars>>
vars == <<geomVars, encVars, scanVars, orderVars, blendVars, refineVars, laterVars>>
notGeom   == <<encVars, scanVars, orderVars, blendVars, refineVars, laterVars>>
notEnc    == <<geomVars, scanVars, orderVars, blendVars, refineVars, laterVars>>
notScan   == <<geomVars, encVars, orderVars, blendVars, refineVars, laterVars>>
notOrder  == <<geomVars, encVars, scanVars, blendVars, refineVars, laterVars>>
notBlend  == <<geomVars, encVars, scanVars, orderVars, refineVars, laterVars>>
notRefine == <<geomVars, encVars, scanVars, orderVars, blendVars, laterVars>>
firstVars == <<geomVars, encVars, scanVars, orderVars, blendVars, refineVars>>
notStore == <<firstVars, rmbgVars, validateVars, lastVars>>
notRmbg == <<firstVars, storeVars, validateVars, lastVars>>
notValidate == <<firstVars, storeVars, rmbgVars, lastVars>>
notBatch == <<firstVars, storeVars, rmbgVars, validateVars, optVars>>
notOpt == <<firstVars, storeVars, rmbgVars, validateVars, batchVars>>

Min(a, b) == IF a < b THEN a ELSE b
Max(a, b) == IF a > b THEN a ELSE b

(***************************************************************************)
(* Idle values of each variable group                                      *)
(***************************************************************************)
GeomIdle ==
    /\ gpc = "idle" /\ req = <<>> /\ img = <<>>
    /\ cropBox = <<>> /\ faces = <<>> /\ newDims = <<>> /\ gerr = ""
EncIdle ==
    /\ epc = "idle" /\ ereq = <<>> /\ eimg = <<>> /\ quality = 0
    /\ current_size = 0 /\ reencodes = 0 /\ resizes = 0 /\ final_size = 0
ScanIdle ==
    /\ spc = "idle" /\ sreq = <<>> /\ idx = 0
    /\ processed_images = <<>> /\ sresult = <<>>
OrderIdle ==
    /\ opc = "idle" /\ pts = <<>> /\ rect = <<>>
    /\ rectAgain = <<>> /\ rectRotated = <<>>
BlendIdle ==
    /\ bpc = "idle" /\ breq = <<>> /\ blendOut = <<>>
RefineIdle ==
    /\ rpc = "idle" /\ rreq = <<>> /\ alphaRaw = <<>>
    /\ alphaRefined = <<>> /\ alphaByte = <<>>
StoreIdle ==
    /\ processed_files = {} /\ thumbnails = {} /\ scanned_docs = {}
    /\ history = {} /\ issued = 0 /\ lookup = <<>>
RmbgIdle ==
    /\ mpc = "idle" /\ mreq = <<>> /\ mresult = <<>>
ValidateIdle ==
    /\ vpc = "idle" /\ vreq = <<>> /\ vresult = <<>>
BatchIdle ==
    /\ kpc = "idle" /\ kfiles = <<>> /\ kidx = 0
    /\ kresults = <<>> /\ kresponse = <<>>
OptIdle ==
    /\ zpc = "idle" /\ zreq = <<>> /\ current_quality = 0
    /\ measured_size = 0 /\ optimized_data = -1
LastIdle == BatchIdle /\ OptIdle
LaterIdle == StoreIdle /\ RmbgIdle /\ ValidateIdle /\ LastIdle
FirstIdle ==
    GeomIdle /\ EncIdle /\ ScanIdle /\ OrderIdle /\ BlendIdle /\ RefineIdle


(***************************************************************************)
(* Colours.  A colour string is a sequence of characters; <<>> models      *)
(* None and "" (both falsy in `if background_color`).                     *)
(***************************************************************************)
White == <<255, 255, 255>>
NoColor == <<>>
HexChars == {"0","1","2","3","4","5","6","7","8","9",
             "a","b","c","d","e","f","A","B","C","D","E","F"}
HexVal(c) ==
    CASE c = "0" -> 0 [] c = "1" -> 1 [] c = "2" -> 2 [] c = "3" -> 3
      [] c = "4" -> 4 [] c = "5" -> 5 [] c = "6" -> 6 [] c = "7" -> 7
      [] c = "8" -> 8 [] c = "9" -> 9
      [] c \in {"a", "A"} -> 10 [] c \in {"b", "B"} -> 11
      [] c \in {"c", "C"} -> 12 [] c \in {"d", "D"} -> 13
      [] c \in {"e", "E"} -> 14 [] c \in {"f", "F"} -> 15

\* s[i:j] of Python for 0 <= i <= j (the slice is cut at the end of s)
Slice(s, i, j) == SubSeq(s, i + 1, Min(j, Len(s)))

\* int(t, 16) raises ValueError on an empty string or a non-hex character
HexOk(t) == Len(t) > 0 /\ \A k \in 1..Len(t) : t[k] \in HexChars
HexInt(t) == IF Len(t) = 1 THEN HexVal(t[1]) ELSE 16 * HexVal(t[1]) + HexVal(t[2])

\* tuple(int(background_color[i:i+2], 16) for i in (1, 3, 5));
\* Raised (the empty tuple) stands for the ValueError of int()
Raised == <<>>
hex_triple(s) ==
    IF \A i \in {1, 3, 5} : HexOk(Slice(s, i, i + 2))
    THEN <<HexInt(Slice(s, 1, 3)), HexInt(Slice(s, 3, 5)), HexInt(Slice(s, 5, 7))>>
    ELSE Raised

parse_background_color(s) ==
    IF Len(s) = 7 /\ s[1] = "#" /\ hex_triple(s) # Raised
    THEN hex_triple(s)
    ELSE White

LowerWhite == <<"#", "f", "f", "f", "f", "f", "f">>
UpperWhite == <<"#", "F", "F", "F", "F", "F", "F">>
Red        == <<"#", "F", "F", "0", "0", "0", "0">>
NamedRed   == <<"r", "e", "d">>
ColorSamples == {NoColor, LowerWhite, UpperWhite, Red, NamedRed}

(***************************************************************************)
(* Images.  An image is its size, its mode and a stack of painted          *)
(* rectangles (bottom first): Src is resampled source content, a triple    *)
(* is a flat colour.  PixelAt gives what is visible at a pixel.            *)
(***************************************************************************)
Src == <<"src">>
Layer(x, y, w, h, paint) == [x |-> x, y |-> y, w |-> w, h |-> h, paint |-> paint]
Image(w, h, mode, layers) == [w |-> w, h |-> h, mode |-> mode, layers |-> layers]

\* Image.new('RGB', (w, h), color)
NewImage(w, h, color) == Image(w, h, "RGB", <<Layer(0, 0, w, h, color)>>)

\* The decoded upload after the mode normalisation of lines 496-506
SourceImage(w, h) == Image(w, h, "RGB", <<Layer(0, 0, w, h, Src)>>)

\* image.resize((w, h), LANCZOS) and cropped.resize(...): content resampled
Resized(im, w, h) == Image(w, h, im.mode, <<Layer(0, 0, w, h, Src)>>)

\* Pillow rejects a target size below 1 ("height and width must be > 0")
ResizeFails(w, h) == w < 1 \/ h < 1

\* canvas.paste(im, (x, y)): the canvas keeps its mode
Paste(canvas, im, x, y) ==
    [canvas EXCEPT !.layers =
        @ \o [k \in 1..Len(im.layers) |->
                [im.layers[k] EXCEPT !.x = @ + x, !.y = @ + y]]]

InLayer(l, x, y) == l.x <= x /\ x < l.x + l.w /\ l.y <= y /\ y < l.y + l.h
PixelAt(im, x, y) ==
    LET hit == {k \in 1..Len(im.layers) : InLayer(im.layers[k], x, y)}
        top == CHOOSE k \in hit : \A j \in hit : j <= k
    IN  im.layers[top].paint

(***************************************************************************)
(* Face Locator                                                            *)
(***************************************************************************)
\* what a detector call yields: a list of boxes (x, y, w, h), or an exception
Detected(boxes) == [raised |-> FALSE, boxes |-> boxes]
DetectorRaised == [raised |-> TRUE, boxes |-> <<>>]

\* _detect_faces: MediaPipe when it is there, else the cascade when it is
\* loaded; an exception of either is swallowed and leaves faces = []
detect_faces(r) ==
    IF r.mpAvailable
    THEN IF r.mpOut.raised THEN <<>> ELSE r.mpOut.boxes
    ELSE IF r.cascadeLoaded
         THEN IF r.cascadeOut.raised THEN <<>> ELSE r.cascadeOut.boxes
         ELSE <<>>

Area(f) == f[3] * f[4]
\* the last box of largest area
LargestFaceLast(fs) ==
    LET k == CHOOSE i \in 1..Len(fs) :
                /\ \A j \in 1..Len(fs) : Area(fs[j]) <= Area(fs[i])
                /\ \A j \in (i + 1)..Len(fs) : Area(fs[j]) < Area(fs[i])
    IN  fs[k]
\* max(faces, key=lambda f: f[2] * f[3]): the first box of largest area
LargestFace(fs) ==
    LET k == CHOOSE i \in 1..Len(fs) :
                /\ \A j \in 1..Len(fs) : Area(fs[j]) <= Area(fs[i])
                /\ \A j \in 1..(i - 1) : Area(fs[j]) < Area(fs[i])
    IN  fs[k]

\* Python's floor division by a positive number
FloorDiv(a, b) == IF a >= 0 THEN a \div b ELSE -((-a + b - 1) \div b)

\* int(a / (b / c)) in double arithmetic falls one short of the exact floor of
\* a * c / b for these (a, b, c); every other triple the sample sizes produce
\* truncates to the exact floor (evaluated with CPython's float)
FloatShortDiv == {<<2200, 2200, 250>>}
\* int(a / (b / c))
IntDivRatio(a, b, c) ==
    IF <<a, b, c>> \in FloatShortDiv THEN ((a * c) \div b) - 1 ELSE (a * c) \div b
\* int(a * (b / c)); no triple of the sample sizes falls short
IntMulRatio(a, b, c) == (a * b) \div c

\* (crop_width, crop_height) at the target aspect ratio, lines 184-194 / 216-227
CropSize(iw, ih, tw, th) ==
    IF iw * th > tw * ih
    THEN <<IntMulRatio(ih, tw, th), ih>>
    ELSE <<iw, IntDivRatio(iw, tw, th)>>

\* the box _center_crop cuts, lines 211-232
center_crop_box(iw, ih, tw, th) ==
    LET cs == CropSize(iw, ih, tw, th)
        left == IF iw * th > tw * ih THEN FloorDiv(iw - cs[1], 2) ELSE 0
        top  == IF iw * th > tw * ih THEN 0 ELSE FloorDiv(ih - cs[2], 2)
    IN  <<left, top, left + cs[1], top + cs[2]>>

\* face_crop_box centred on the corner (x, y) of the face box instead of on
\* its biased centre
face_crop_box_corner(iw, ih, tw, th, f) ==
    LET cs == CropSize(iw, ih, tw, th)
        left0 == Max(0, f[1] - FloorDiv(cs[1], 2))
        top0  == Max(0, f[2] - FloorDiv(cs[2], 2))
        right  == Min(iw, left0 + cs[1])
        bottom == Min(ih, top0 + cs[2])
        left == IF right - left0 < cs[1] THEN Max(0, right - cs[1]) ELSE left0
        top  == IF bottom - top0 < cs[2] THEN Max(0, bottom - cs[2]) ELSE top0
    IN  <<left, top, right, bottom>>

\* face_crop_box without the re-anchoring of lines 202-206
face_crop_box_shrinking(iw, ih, tw, th, f) ==
    LET cs == CropSize(iw, ih, tw, th)
        left == Max(0, f[1] + FloorDiv(f[3], 2) - FloorDiv(cs[1], 2))
        top  == Max(0, f[2] + FloorDiv(f[4], 3) - FloorDiv(cs[2], 2))
    IN  <<left, top, Min(iw, left + cs[1]), Min(ih, top + cs[2])>>

\* the box _center_crop_face cuts around one face, lines 173-206
face_crop_box(iw, ih, tw, th, f) ==
    LET face_center_x == f[1] + FloorDiv(f[3], 2)
        face_center_y == f[2] + FloorDiv(f[4], 3)
        cs == CropSize(iw, ih, tw, th)
        left0 == Max(0, face_center_x - FloorDiv(cs[1], 2))
        top0  == Max(0, face_center_y - FloorDiv(cs[2], 2))
        right  == Min(iw, left0 + cs[1])
        bottom == Min(ih, top0 + cs[2])
        left == IF right - left0 < cs[1] THEN Max(0, right - cs[1]) ELSE left0
        top  == IF bottom - top0 < cs[2] THEN Max(0, bottom - cs[2]) ELSE top0
    IN  <<left, top, right, bottom>>

\* crop_box_for whose no-face branch crops from the top-left corner
crop_box_for_topleft(iw, ih, tw, th, fs) ==
    IF fs = <<>>
    THEN <<0, 0, CropSize(iw, ih, tw, th)[1], CropSize(iw, ih, tw, th)[2]>>
    ELSE face_crop_box(iw, ih, tw, th, LargestFace(fs))

\* the box chosen by _center_crop_face given the detector's answer
crop_box_for(iw, ih, tw, th, fs) ==
    IF fs = <<>>
    THEN center_crop_box(iw, ih, tw, th)
    ELSE face_crop_box(iw, ih, tw, th, LargestFace(fs))


(***************************************************************************)
(* process_image, steps 1 to 4                                             *)
(***************************************************************************)
MinDimension == 50
MaxDimension == 4000

\* sample sizes (width, height) of the decoded upload and of the target box
SrcSizes == {<<4000, 3000>>, <<4000, 1>>, <<1, 4000>>,
             <<100, 100>>, <<300, 400>>, <<3000, 4000>>, <<2200, 250>>}
TargetSizes == {<<300, 400>>, <<50, 50>>, <<4000, 50>>,
                <<50, 4000>>, <<4000, 4000>>, <<400, 300>>, <<2200, 3493>>}

\* sample face boxes (x, y, w, h); the last three have the same area, one of
\* them starts left of and above the image (a relative box with xmin < 0)
FaceBoxes == {<<0, 0, 1, 2>>, <<10, 20, 60, 90>>, <<2970, 1960, 90, 60>>,
              <<-30, -40, 60, 90>>}
MaxFaces == 2
FaceLists == UNION {[1..n -> FaceBoxes] : n \in 0..MaxFaces}
DetectorOutcomes == {Detected(fs) : fs \in FaceLists} \cup {DetectorRaised}
FewOutcomes == {Detected(<<>>), Detected(<<<<10, 20, 60, 90>>>>)}

\* _remove_background as far as the geometry needs it: the result keeps the
\* size; it is RGB when a colour was composited or when both the primary path
\* and the fallback failed, and RGBA otherwise
remove_background(im, color, outcome) ==
    IF outcome = "unchanged" THEN im
    ELSE [im EXCEPT !.mode = IF color # NoColor THEN "RGB" ELSE "RGBA"]

\* (new_width, new_height) of the aspect-preserving branch, lines 522-532
fit_size(iw, ih, tw, th) ==
    IF iw * th > tw * ih
    THEN <<tw, IntDivRatio(tw, iw, ih)>>
    ELSE <<IntMulRatio(th, iw, ih), th>>

\* canvas colour of the letterbox, lines 540-545
canvas_color(color, rmbg) ==
    IF color # NoColor /\ ~rmbg /\ hex_triple(color) # Raised
    THEN hex_triple(color)
    ELSE White

\* the letterbox of lines 538-552: im is already resized to nd
letterbox(im, nd, tw, th, color, rmbg) ==
    IF nd[1] # tw \/ nd[2] # th
    THEN Paste(NewImage(tw, th, canvas_color(color, rmbg)), im,
               FloorDiv(tw - nd[1], 2), FloorDiv(th - nd[2], 2))
    ELSE im

Request(s, t, keep, face, rmbg, color, fmt, outcome, mpA, casL, mpO, casO) ==
    [iw |-> s[1], ih |-> s[2], tw |-> t[1], th |-> t[2],
     keep |-> keep, face |-> face, rmbg |-> rmbg, color |-> color,
     fmt |-> fmt, bgOutcome |-> outcome,
     mpAvailable |-> mpA, cascadeLoaded |-> casL,
     mpOut |-> mpO, cascadeOut |-> casO]

\* The requests explored.  Inputs that the selected branch never reads are
\* held at one value: the detectors without auto_face_crop; with it,
\* maintain_aspect_ratio, and the output of a detector that is not installed.
PlainRequests ==
    {Request(s, t, keep, FALSE, ro[1], color, fmt, ro[2],
             FALSE, FALSE, Detected(<<>>), Detected(<<>>)) :
        s \in SrcSizes, t \in TargetSizes, keep \in BOOLEAN,
        ro \in {<<FALSE, "matte">>, <<TRUE, "matte">>, <<TRUE, "unchanged">>},
        color \in ColorSamples, fmt \in {"JPG", "PNG", "PDF"}}
DetectorSetups ==
    {<<TRUE, TRUE, m, c>> : m \in DetectorOutcomes, c \in FewOutcomes}
      \cup {<<TRUE, FALSE, m, Detected(<<>>)>> : m \in DetectorOutcomes}
      \cup {<<FALSE, TRUE, Detected(<<>>), c>> : c \in DetectorOutcomes}
      \cup {<<FALSE, FALSE, Detected(<<>>), Detected(<<>>)>>}
FaceRequests ==
    {Request(s, t, TRUE, TRUE, rmbg, color, fmt, "matte", d[1], d[2], d[3], d[4]) :
        s \in SrcSizes, t \in TargetSizes, rmbg \in BOOLEAN,
        color \in {NoColor, Red}, fmt \in {"JPG", "PNG"}, d \in DetectorSetups}

GeomInit ==
    /\ gpc = "step1"
    /\ req \in PlainRequests \cup FaceRequests
    /\ img = SourceImage(req.iw, req.ih)
    /\ cropBox = <<>> /\ faces = <<>> /\ newDims = <<>> /\ gerr = ""

\* Step 1: if remove_background: img = self._remove_background(img, background_color)
Step1RemoveBackground ==
    /\ gpc = "step1"
    /\ img' = IF req.rmbg THEN remove_background(img, req.color, req.bgOutcome)
              ELSE img
    /\ gpc' = "step2"
    /\ UNCHANGED <<req, cropBox, faces, newDims, gerr>>
    /\ UNCHANGED notGeom

\* Step 2, auto_face_crop: _center_crop_face (which calls _detect_faces and,
\* without a face, _center_crop), then new_width, new_height = width, height
Step2FaceCrop ==
    /\ gpc = "step2" /\ req.face
    /\ LET fs == detect_faces(req)
       IN  /\ faces' = fs
           /\ cropBox' = crop_box_for(img.w, img.h, req.tw, req.th, fs)
    /\ IF ResizeFails(req.tw, req.th)
       THEN /\ gpc' = "failed" /\ gerr' = "ValueError"
            /\ UNCHANGED <<img, newDims>>
       ELSE /\ img' = Resized(img, req.tw, req.th)
            /\ newDims' = <<req.tw, req.th>>
            /\ gpc' = "step3" /\ UNCHANGED gerr
    /\ UNCHANGED req
    /\ UNCHANGED notGeom

\* Step 2, maintain_aspect_ratio: resize to fit, then centre on a canvas
Step2Letterbox ==
    /\ gpc = "step2" /\ ~req.face /\ req.keep
    /\ LET nd == fit_size(img.w, img.h, req.tw, req.th)
       IN  IF ResizeFails(nd[1], nd[2])
           THEN /\ gpc' = "failed" /\ gerr' = "ValueError"
                /\ UNCHANGED <<img, newDims>>
           ELSE /\ img' = letterbox(Resized(img, nd[1], nd[2]), nd,
                                    req.tw, req.th, req.color, req.rmbg)
                /\ newDims' = IF nd[1] # req.tw \/ nd[2] # req.th
                              THEN <<req.tw, req.th>> ELSE nd
                /\ gpc' = "step3" /\ UNCHANGED gerr
    /\ UNCHANGED <<req, cropBox, faces>>
    /\ UNCHANGED notGeom

\* Step 2, otherwise: img.resize((width, height))
Step2DirectResize ==
    /\ gpc = "step2" /\ ~req.face /\ ~req.keep
    /\ IF ResizeFails(req.tw, req.th)
       THEN /\ gpc' = "failed" /\ gerr' = "ValueError"
            /\ UNCHANGED <<img, newDims>>
       ELSE /\ img' = Resized(img, req.tw, req.th)
            /\ newDims' = <<req.tw, req.th>>
            /\ gpc' = "step3" /\ UNCHANGED gerr
    /\ UNCHANGED <<req, cropBox, faces>>
    /\ UNCHANGED notGeom

\* Step 3: a colour other than the literal "#ffffff" is parsed without a guard
\* and the image is pasted onto a background of that colour
Step3BackgroundColor ==
    /\ gpc = "step3"
    /\ IF req.color # NoColor /\ req.color # LowerWhite /\ ~req.rmbg
       THEN IF hex_triple(req.color) = Raised
            THEN /\ gpc' = "failed" /\ gerr' = "ValueError" /\ UNCHANGED img
            ELSE /\ img' = Paste(NewImage(newDims[1], newDims[2],
                                          hex_triple(req.color)), img, 0, 0)
                 /\ gpc' = "step4" /\ UNCHANGED gerr
       ELSE gpc' = "step4" /\ UNCHANGED <<img, gerr>>
    /\ UNCHANGED <<req, cropBox, faces, newDims>>
    /\ UNCHANGED notGeom

\* Step 4: format compatibility; afterwards img goes to the encoder
save_format(fmt) == IF fmt = "JPG" THEN "JPEG" ELSE fmt
Step4Format ==
    /\ gpc = "step4"
    /\ img' =
         IF save_format(req.fmt) = "JPEG" /\ img.mode = "RGBA"
         THEN Paste(NewImage(img.w, img.h,
                             IF req.color # NoColor
                             THEN parse_background_color(req.color) ELSE White),
                    img, 0, 0)
         ELSE IF img.mode \notin {"RGB", "L"} /\ save_format(req.fmt) \in {"JPEG", "PNG"}
              THEN [img EXCEPT !.mode = "RGB"]
              ELSE img
    /\ gpc' = "encode"
    /\ UNCHANGED <<req, cropBox, faces, newDims, gerr>>
    /\ UNCHANGED notGeom

GeomNext ==
    \/ Step1RemoveBackground
    \/ Step2FaceCrop
    \/ Step2Letterbox
    \/ Step2DirectResize
    \/ Step3BackgroundColor
    \/ Step4Format

InitGeom ==
    GeomInit /\ EncIdle /\ ScanIdle /\ OrderIdle /\ BlendIdle /\ RefineIdle
      /\ LaterIdle

SpecGeom == InitGeom /\ [][GeomNext]_vars


(***************************************************************************)
(* Claims about the geometry stage (checked under SpecGeom)                *)
(***************************************************************************)
AfterGeometry == gpc \in {"step3", "step4", "encode"}
GeometryFailed == gpc = "failed" /\ newDims = <<>>
ValidTarget ==
    /\ MinDimension <= req.tw /\ req.tw <= MaxDimension
    /\ MinDimension <= req.th /\ req.th <= MaxDimension

\* C1: for every source image (width, height >= 1) and every target with
\* 50 <= w, h <= 4000, the geometry stage (face crop, letterbox or direct
\* resize) hands on an image of exactly w x h pixels and never fails.
C1_GeometryExactNeverFails ==
    (req.iw >= 1 /\ req.ih >= 1 /\ ValidTarget) =>
        /\ AfterGeometry => (img.w = req.tw /\ img.h = req.th)
        /\ ~GeometryFailed

\* the biased centre of the single detected face
BiasedCenter(f) == <<f[1] + FloorDiv(f[3], 2), f[2] + FloorDiv(f[4], 3)>>
OneFaceInside ==
    /\ req.face /\ AfterGeometry /\ Len(faces) = 1
    /\ LET c == BiasedCenter(faces[1])
       IN  0 <= c[1] /\ c[1] < req.iw /\ 0 <= c[2] /\ c[2] < req.ih

\* C5: with exactly one detected face whose biased centre (x + w//2, y + h//3)
\* lies inside the image, the crop rectangle (left, top, right, bottom) cut by
\* _center_crop_face contains that point: it lies between the edges, and on a
\* pixel of the crop whenever the crop has pixels in that direction.
C5_CropContainsBiasedCenter ==
    OneFaceInside =>
        LET c == BiasedCenter(faces[1])
        IN  /\ cropBox[1] <= c[1] /\ c[1] <= cropBox[3]
            /\ cropBox[2] <= c[2] /\ c[2] <= cropBox[4]
            /\ cropBox[1] < cropBox[3] => c[1] < cropBox[3]
            /\ cropBox[2] < cropBox[4] => c[2] < cropBox[4]

\* a one-face crop with pixels that is not the plain centre crop
C5_Witness ==
    /\ OneFaceInside
    /\ cropBox[1] < cropBox[3] /\ cropBox[2] < cropBox[4]
    /\ cropBox # center_crop_box(req.iw, req.ih, req.tw, req.th)

\* C20: given a non-empty list of face boxes, _center_crop_face positions the
\* crop from the box with the largest area w*h, the first such box in list
\* order when several share the largest area, and uses (x + w//2, y + h//3)
\* of that box as the crop centre.
C20_LargestFaceFirstOnTies ==
    (req.face /\ faces # <<>> /\ cropBox # <<>>) =>
        \E k \in 1..Len(faces) :
            /\ \A j \in 1..Len(faces) :
                  faces[j][3] * faces[j][4] <= faces[k][3] * faces[k][4]
            /\ \A j \in 1..(k - 1) :
                  faces[j][3] * faces[j][4] < faces[k][3] * faces[k][4]
            /\ cropBox = face_crop_box(req.iw, req.ih, req.tw, req.th, faces[k])
            /\ LET c  == BiasedCenter(faces[k])
                   cs == CropSize(req.iw, req.ih, req.tw, req.th)
                   l  == c[1] - FloorDiv(cs[1], 2)
                   t  == c[2] - FloorDiv(cs[2], 2)
               IN  /\ (l >= 0 /\ l + cs[1] <= req.iw) =>
                          (cropBox[1] = l /\ cropBox[3] = l + cs[1])
                   /\ (t >= 0 /\ t + cs[2] <= req.ih) =>
                          (cropBox[2] = t /\ cropBox[4] = t + cs[2])

\* two boxes share the largest area and the crop around the second one
\* would have been a different rectangle
C20_Witness ==
    /\ req.face /\ AfterGeometry /\ Len(faces) = 2
    /\ faces[1] # faces[2]
    /\ faces[1][3] * faces[1][4] = faces[2][3] * faces[2][4]
    /\ cropBox = face_crop_box(req.iw, req.ih, req.tw, req.th, faces[1])
    /\ cropBox # face_crop_box(req.iw, req.ih, req.tw, req.th, faces[2])

\* C21: for every image size, target size and face box (boxes partly or
\* wholly outside the image included), the crop rectangle of _center_crop_face
\* has 0 <= left, 0 <= top, right <= img_width, bottom <= img_height,
\* right - left = crop_width and bottom - top = crop_height: clamping moves
\* the rectangle and never shrinks it.
C21_ClampMovesNeverShrinks ==
    (req.face /\ faces # <<>> /\ cropBox # <<>>) =>
        LET cs == CropSize(req.iw, req.ih, req.tw, req.th)
        IN  /\ 0 <= cropBox[1] /\ 0 <= cropBox[2]
            /\ cropBox[3] <= req.iw /\ cropBox[4] <= req.ih
            /\ cropBox[3] - cropBox[1] = cs[1]
            /\ cropBox[4] - cropBox[2] = cs[2]

\* a crop centred on the largest face would pass the right edge of the image
\* and was moved back inside at full width
C21_Witness ==
    /\ req.face /\ faces # <<>> /\ cropBox # <<>>
    /\ LET cs == CropSize(req.iw, req.ih, req.tw, req.th)
           c  == BiasedCenter(LargestFace(faces))
       IN  /\ 0 < cs[1] /\ cs[1] < req.iw
           /\ c[1] - FloorDiv(cs[1], 2) + cs[1] > req.iw
           /\ cropBox[3] = req.iw /\ cropBox[1] = req.iw - cs[1]

\* C22: _detect_faces runs the cascade detector whenever the primary
\* detector is unavailable or returns no detections (and the cascade is
\* loaded); in particular, when the primary detector is available and finds
\* no face, the boxes of the cascade detector are returned.
C22_CascadeRunsWhenPrimaryEmpty ==
    (/\ req.face /\ gpc \notin {"step1", "step2"}
     /\ req.cascadeLoaded /\ ~req.cascadeOut.raised
     /\ \/ ~req.mpAvailable
        \/ ~req.mpOut.raised /\ req.mpOut.boxes = <<>>)
        => faces = req.cascadeOut.boxes

\* C28: a background_color string that is not a valid '#RRGGBB' value never
\* makes process_image fail: wherever the colour is parsed (background
\* replacement, letterbox canvas, final background application, JPEG
\* flattening) it falls back to white (255,255,255).  Failures of the resize
\* of step 2 (newDims not yet set) are not counted.
C28_InvalidColourNeverFails ==
    (/\ req.color # NoColor
     /\ ~(Len(req.color) = 7 /\ req.color[1] = "#" /\ hex_triple(req.color) # Raised)
     /\ newDims # <<>>) =>
        /\ gpc # "failed"
        /\ gerr = ""

\* C30: with remove_background = true, no background colour and PNG output,
\* the image handed to the encoder still carries the alpha channel produced
\* by the background separator (the transparency survives the crop/resize
\* and the format-compatibility step).
C30_TransparencySurvives ==
    (/\ gpc = "encode" /\ req.rmbg /\ req.bgOutcome = "matte"
     /\ req.color = NoColor /\ req.fmt = "PNG") =>
        img.mode = "RGBA"

\* the detector that _detect_faces consults yields no box
NoBoxDetected ==
    \/ req.mpAvailable /\ (req.mpOut.raised \/ req.mpOut.boxes = <<>>)
    \/ ~req.mpAvailable /\ req.cascadeLoaded
         /\ (req.cascadeOut.raised \/ req.cascadeOut.boxes = <<>>)
    \/ ~req.mpAvailable /\ ~req.cascadeLoaded

\* C6: when face detection yields no box (none found, no detector, or the
\* detector raises), _center_crop_face cuts the box of _center_crop and
\* returns its resize to the target, and no error surfaces.
C6_NoFaceIsCenterCrop ==
    (req.face /\ gpc # "step1" /\ gpc # "step2" /\ NoBoxDetected) =>
        /\ ~GeometryFailed
        /\ faces = <<>>
        /\ cropBox = center_crop_box(req.iw, req.ih, req.tw, req.th)
        /\ img.w = req.tw /\ img.h = req.th

\* the detector raised and the centre crop (not anchored at 0,0) was taken
C6_Witness ==
    /\ req.face /\ gpc = "step3" /\ req.mpAvailable /\ req.mpOut.raised
    /\ faces = <<>>
    /\ cropBox = center_crop_box(req.iw, req.ih, req.tw, req.th)
    /\ cropBox[1] > 0

\* C16: process_image shapes the geometry first (canvas compositor or
\* face-aware crop), then optionally separates or replaces the background,
\* then encodes: the background separator never runs in a step that is taken
\* before the crop/resize to the target box.
C16_GeometryBeforeBackground ==
    [][(gpc = "step1" /\ gpc' = "step2") => ~req.rmbg]_vars

\* source size scaled by min(target_w/src_w, target_h/src_h), rounded down
ScaledToFit(sw, sh, tw, th) ==
    IF tw * sh <= th * sw
    THEN <<tw, (sh * tw) \div sw>>
    ELSE <<(sw * th) \div sh, th>>

\* the fill colour the claim names: white without a colour and for white,
\* the given colour for another valid '#RRGGBB' when no background was removed
FillPinned ==
    \/ req.color \in {NoColor, UpperWhite, LowerWhite}
    \/ ~req.rmbg /\ req.color = Red
FillExpected == IF req.color = Red THEN <<255, 0, 0>> ELSE White

Probes(off, n, t) == {0, off - 1, off, off + n - 1, off + n, t - 1} \cap (0..(t - 1))

ExampleRequest ==
    /\ req.iw = 4000 /\ req.ih = 3000 /\ req.tw = 300 /\ req.th = 400
    /\ req.keep /\ ~req.face /\ req.color = UpperWhite

\* C9: with maintain_aspect_ratio and no face crop, the source is scaled by
\* min(target_w/src_w, target_h/src_h), pasted centred at
\* ((target_w-new_w)//2, (target_h-new_h)//2) on a target_w x target_h canvas,
\* and every canvas pixel outside the pasted area has the fill colour;
\* 4000x3000 into 300x400 gives a 300x225 content area at vertical offset 87.
C9_LetterboxLayout ==
    (~req.face /\ req.keep /\ gpc \notin {"step1", "step2"}) =>
        LET nd == ScaledToFit(req.iw, req.ih, req.tw, req.th)
            xo == FloorDiv(req.tw - nd[1], 2)
            yo == FloorDiv(req.th - nd[2], 2)
            inside(x, y) == /\ xo <= x /\ x < xo + nd[1]
                            /\ yo <= y /\ y < yo + nd[2]
        IN  /\ ~GeometryFailed
            /\ AfterGeometry =>
                 /\ img.w = req.tw /\ img.h = req.th
                 /\ \A x \in Probes(xo, nd[1], req.tw), y \in Probes(yo, nd[2], req.th) :
                      /\ inside(x, y) => PixelAt(img, x, y) = Src
                      /\ (~inside(x, y) /\ FillPinned) => PixelAt(img, x, y) = FillExpected
                 /\ ExampleRequest =>
                      /\ nd = <<300, 225>> /\ yo = 87 /\ xo = 0
                      /\ PixelAt(img, 0, 86) = White /\ PixelAt(img, 0, 87) = Src
                      /\ PixelAt(img, 299, 311) = Src /\ PixelAt(img, 299, 312) = White


(***************************************************************************)
(* Size-Constrained Encoder: _enforce_file_size_limits and the save that   *)
(* process_image makes of its result.                                      *)
(*                                                                         *)
(* The codec is external.  It is a table chosen with the image: the size   *)
(* of the JPEG encoding at each quality the code can ask for, any table    *)
(* that does not shrink as the quality rises; a PNG has one size.  The     *)
(* encoding of a resized image shrinks with its pixel count.               *)
(***************************************************************************)
MinOutputSizeKb == 10
MaxOutputSizeKb == 2048
QualityStart == 95
QualityMax == 100
QualityFloor == 60
QualityStep == 5
QualityAfterResize == 75
DimFloor == 50

Qualities == {60, 65, 70, 75, 80, 85, 90, 95, 100}
\* sample encoded sizes in bytes: 8 KB (below min_size), 15 KB, 21 KB (just
\* above a 20 KB limit), 40 KB and 400 KB
SizeSamples == {8192, 15360, 21504, 40960, 409600}
\* sample image sizes and target_size_kb values (0 models None)
EncSizes == {<<50, 50>>, <<60, 80>>, <<64, 64>>}
TargetSamples == {0, 20}

RECURSIVE NonDecreasing(_)
NonDecreasing(n) ==
    IF n = 0 THEN {<<>>}
    ELSE {Append(t, v) : t \in NonDecreasing(n - 1), v \in SizeSamples} \cap
         {t \in Seq(SizeSamples) : \A i \in 1..(Len(t) - 1) : t[i] <= t[i + 1]}

\* the table's entry for quality q; qualities outside 60..100 are never asked
\* for by the code and read the nearest entry
QIndex(q) == Max(1, Min(Cardinality(Qualities), (q - QualityFloor) \div QualityStep + 1))
\* image.save(test_buffer, ...); test_buffer.tell() for the original image
EncodedSize(r, q) == IF r.fmt = "JPG" THEN r.sizes[QIndex(q)] ELSE r.sizes[1]

min_size == MinOutputSizeKb * 1024
max_size(r) == IF r.target # 0 THEN r.target * 1024 ELSE MaxOutputSizeKb * 1024

\* int(d * min(0.95, (max_size / current_size) ** 0.5))
ScaledDim(d, mx, cur) ==
    IF mx * 400 >= 361 * cur
    THEN (d * 95) \div 100
    ELSE CHOOSE n \in 0..d :
            /\ n * n * cur <= d * d * mx
            /\ (n + 1) * (n + 1) * cur > d * d * mx

\* the condition of the quality sweep, line 452
SweepContinuesPastFloor(cur, mx, q) == cur > mx /\ q >= QualityFloor
SweepContinues(cur, mx, q) == cur > mx /\ q > QualityFloor

\* the too-small branch returning quality 100 without trying it
too_small_result_unchecked(r, im, q) == [image |-> im, quality |-> QualityMax]
\* lines 439-448: what is returned when the first encode is below min_size
too_small_result(r, im, q) ==
    IF r.fmt = "JPG" /\ EncodedSize(r, QualityMax) >= min_size
    THEN [image |-> im, quality |-> QualityMax]
    ELSE [image |-> [im EXCEPT !.sharpened = TRUE], quality |-> q]

EncInit ==
    /\ epc = "first_encode"
    /\ \E d \in EncSizes, target \in TargetSamples :
         \/ \E t \in NonDecreasing(Cardinality(Qualities)) :
              ereq = [w |-> d[1], h |-> d[2], fmt |-> "JPG",
                      target |-> target, sizes |-> t]
         \/ \E v \in SizeSamples :
              ereq = [w |-> d[1], h |-> d[2], fmt |-> "PNG",
                      target |-> target, sizes |-> <<v>>]
    /\ eimg = [w |-> ereq.w, h |-> ereq.h, sharpened |-> FALSE]
    /\ quality = 0 /\ current_size = 0 /\ reencodes = 0 /\ resizes = 0
    /\ final_size = 0

\* lines 422-436: quality = 95, first encode
EncFirstEncode ==
    /\ epc = "first_encode"
    /\ quality' = QualityStart
    /\ current_size' = EncodedSize(ereq, QualityStart)
    /\ epc' = "check_min"
    /\ UNCHANGED <<ereq, eimg, reencodes, resizes, final_size>>
    /\ UNCHANGED notEnc

\* lines 439-448: below min_size, return quality 100 if that JPEG reaches
\* min_size, else the image sharpened by 1.05 at quality 95
EncTooSmall ==
    /\ epc = "check_min" /\ current_size < min_size
    /\ eimg' = too_small_result(ereq, eimg, quality).image
    /\ quality' = too_small_result(ereq, eimg, quality).quality
    /\ epc' = "returned"
    /\ UNCHANGED <<ereq, current_size, reencodes, resizes, final_size>>
    /\ UNCHANGED notEnc

EncNotTooSmall ==
    /\ epc = "check_min" /\ current_size >= min_size
    /\ epc' = "sweep"
    /\ UNCHANGED <<ereq, eimg, quality, current_size, reencodes, resizes, final_size>>
    /\ UNCHANGED notEnc

\* lines 451-456: one iteration of the JPEG quality sweep
EncSweepStep ==
    /\ epc = "sweep" /\ ereq.fmt = "JPG"
    /\ SweepContinues(current_size, max_size(ereq), quality)
    /\ quality' = quality - QualityStep
    /\ current_size' = EncodedSize(ereq, quality - QualityStep)
    /\ reencodes' = reencodes + 1
    /\ UNCHANGED <<epc, ereq, eimg, resizes, final_size>>
    /\ UNCHANGED notEnc

\* lines 459-467 once the sweep is over (or for PNG at once): one resize if
\* still above max_size, then return
EncResizeOrReturn ==
    /\ epc = "sweep"
    /\ ereq.fmt = "JPG" => ~SweepContinues(current_size, max_size(ereq), quality)
    /\ IF current_size > max_size(ereq)
       THEN /\ eimg' = [eimg EXCEPT
                  !.w = Max(DimFloor, ScaledDim(eimg.w, max_size(ereq), current_size)),
                  !.h = Max(DimFloor, ScaledDim(eimg.h, max_size(ereq), current_size))]
            /\ quality' = Max(QualityAfterResize, quality)
            /\ resizes' = resizes + 1
       ELSE UNCHANGED <<eimg, quality, resizes>>
    /\ epc' = "returned"
    /\ UNCHANGED <<ereq, current_size, reencodes, final_size>>
    /\ UNCHANGED notEnc

\* a slightly sharpened image encodes to the same sample size or the next one
NextSample(v) ==
    IF \E u \in SizeSamples : u > v
    THEN CHOOSE u \in SizeSamples : u > v /\ \A t \in SizeSamples : t > v => u <= t
    ELSE v

\* the sizes the codec can give the returned image at the returned quality:
\* an image of fewer pixels encodes to proportionally fewer bytes
ReturnedSizes(r, im, q) ==
    IF im.sharpened
    THEN {EncodedSize(r, q), NextSample(EncodedSize(r, q))}
    ELSE {(EncodedSize(r, q) * (im.w * im.h)) \div (r.w * r.h)}

\* process_image line 615: img.save(output_buffer, quality=quality, ...) of the
\* returned pair
EncCallerSave ==
    /\ epc = "returned"
    /\ final_size' \in ReturnedSizes(ereq, eimg, quality)
    /\ epc' = "saved"
    /\ UNCHANGED <<ereq, eimg, quality, current_size, reencodes, resizes>>
    /\ UNCHANGED notEnc

EncNext ==
    \/ EncFirstEncode
    \/ EncTooSmall
    \/ EncNotTooSmall
    \/ EncSweepStep
    \/ EncResizeOrReturn
    \/ EncCallerSave

InitEnc ==
    GeomIdle /\ EncInit /\ ScanIdle /\ OrderIdle /\ BlendIdle /\ RefineIdle
      /\ LaterIdle

SpecEnc == InitEnc /\ [][EncNext]_vars

(***************************************************************************)
(* Claims about the encoder (checked under SpecEnc)                        *)
(***************************************************************************)
\* C2: for any image and any window with min_kb < max_kb, the (image, quality)
\* returned by _enforce_file_size_limits encodes to at most max_kb*1024 bytes,
\* or else both the returned quality and the returned dimensions are at their
\* floors; for JPEG and PNG, also when the first encode was below min_kb.
C2_FitsOrMinimal ==
    (epc = "saved" /\ min_size < max_size(ereq)) =>
        \/ final_size <= max_size(ereq)
        \/ /\ ereq.fmt = "JPG" => quality = QualityFloor
           /\ eimg.w = DimFloor /\ eimg.h = DimFloor

\* C10: _enforce_file_size_limits always terminates and returns a result: the
\* JPEG quality sweep starts at 95, goes down by 5 per iteration, never below
\* 60 (at most 7 re-encodes), and the number of resize steps is bounded (one),
\* whatever sizes the codec reports.
C10_BoundedSweep ==
    /\ reencodes <= 7 /\ resizes <= 1
    /\ epc = "sweep" => quality = QualityStart - QualityStep * reencodes
    /\ epc \in {"check_min", "sweep"} => quality >= QualityFloor
    /\ epc \in {"returned", "saved"} => quality \in Qualities
    /\ epc # "saved" => ENABLED EncNext

\* the longest run: seven sweep re-encodes down to 60, then the resize
C10_Witness ==
    epc = "saved" /\ reencodes = 7 /\ resizes = 1 /\ current_size > max_size(ereq)


\* C18: when the quality floor is reached and the encoding is still above
\* max_kb, the encoder downscales in steps that each shrink width and height
\* by at most about 5%, re-runs the sweep and re-measures after each, and
\* repeats until the size fits or the dimension floor is reached.
C18_DownscaleRepeatsInSmallSteps ==
    (epc = "saved" /\ ereq.fmt = "JPG" /\ resizes > 0) =>
        /\ \/ final_size <= max_size(ereq)
           \/ eimg.w = DimFloor /\ eimg.h = DimFloor
        /\ resizes = 1 =>
             /\ eimg.w * 100 >= ereq.w * 94
             /\ eimg.h * 100 >= ereq.h * 94

\* C19: when the first encode (quality 95) is below min_kb*1024, the encoder
\* returns either the unchanged image with quality 100 (JPEG only, and only
\* if the quality-100 encode reaches min_kb) or the image sharpened by 1.05
\* with quality 95; the dimensions are unchanged and neither the quality
\* reduction nor the downscale is executed.
C19_TooSmallBranch ==
    (epc \in {"returned", "saved"} /\ EncodedSize(ereq, QualityStart) < min_size) =>
        /\ \/ /\ quality = QualityMax /\ ~eimg.sharpened
              /\ ereq.fmt = "JPG" /\ EncodedSize(ereq, QualityMax) >= min_size
           \/ quality = QualityStart /\ eimg.sharpened
        /\ eimg.w = ereq.w /\ eimg.h = ereq.h
        /\ reencodes = 0 /\ resizes = 0

\* a JPEG below min_kb even at quality 100 was returned sharpened at 95
C19_Witness ==
    /\ epc = "saved" /\ ereq.fmt = "JPG"
    /\ EncodedSize(ereq, QualityMax) < min_size
    /\ eimg.sharpened /\ quality = QualityStart

\* process_image lines 669-670 and 691: the result reports new_width and
\* new_height of step 2, the size of the image handed to the encoder
reported_dimensions(r) == <<r.w, r.h>>

\* C14: the dimensions process_image reports (new_dimensions,
\* processed_width/processed_height) are the pixel dimensions of the image
\* encoded into the returned bytes, also when the encoder downscaled it.
C14_ReportedDimsAreEncodedDims ==
    epc = "saved" => reported_dimensions(ereq) = <<eimg.w, eimg.h>>

(***************************************************************************)
(* Scan Corrector: scan_to_pdf, one step per page                          *)
(***************************************************************************)
MaxPagesAllowed == 50
MaxFiles == 3

\* a page of the batch: decodable with a detected quadrilateral, decodable
\* without one (no contour, or a polygon of other than four points), one on
\* which edge detection raises, one whose quadrilateral makes the perspective
\* transform raise, or bytes that do not decode
PageKinds == {"quad", "noquad", "edgefail", "warpfail", "undecodable"}
FileLists == UNION {[1..n -> PageKinds] : n \in 0..MaxFiles}
HttpError(status) == [success |-> FALSE, status |-> status, pages |-> <<>>,
                      page_errors |-> <<>>, stored |-> FALSE, saved |-> FALSE]

\* the perspective correction with its try/except removed: every page that
\* decodes comes out warped
perspective_corrected_unguarded(r, i) ==
    r.cv2 /\ r.auto_crop /\ r.files[i] # "undecodable"
\* lines 202-233: cv_image is replaced by the warped image only when
\* _detect_document_edges returned four points (None when it found none or
\* raised, lines 117-157) and the transform did not raise (except, line 232)
perspective_corrected(r, i) ==
    r.cv2 /\ r.auto_crop /\ r.files[i] = "quad"

\* what one decodable page becomes, lines 193-262
process_page(r, i) ==
    [page |-> i,
     corrected |-> perspective_corrected(r, i),
     enhancement |-> r.enhancement]

\* the page list with the new page put in front
append_page_front(ps, p) == <<p>> \o ps
\* line 262: processed_images.append(pil_image)
append_page(ps, p) == Append(ps, p)

\* lines 195-199 and 246: imdecode gives None (then HTTPException 400 is
\* raised inside the try) or Image.open raises
decode_fails(r, i) == r.files[i] = "undecodable"

ScanInit ==
    /\ spc = "start"
    /\ \E fs \in FileLists, fmt \in {"PDF", "PNG", "JPG"},
          level \in {"light", "medium", "high"}, crop \in BOOLEAN, cv \in BOOLEAN :
         sreq = [files |-> fs, fmt |-> fmt, enhancement |-> level,
                 auto_crop |-> crop, cv2 |-> cv]
    /\ idx = 0 /\ processed_images = <<>> /\ sresult = <<>>

\* lines 174-183: the two length checks (outside the try) and validate_image
ScanStart ==
    /\ spc = "start"
    /\ IF Len(sreq.files) = 0 \/ Len(sreq.files) > MaxPagesAllowed
       THEN spc' = "failed" /\ sresult' = HttpError(400)
       ELSE spc' = "pages" /\ UNCHANGED sresult
    /\ UNCHANGED <<sreq, idx, processed_images>>
    /\ UNCHANGED notScan

\* lines 188-262: one iteration of the page loop.  The HTTPException raised
\* for an undecodable page is caught by `except Exception` at line 356 and
\* re-raised as a 500 for the whole request.
ScanPage ==
    /\ spc = "pages" /\ idx < Len(sreq.files)
    /\ IF decode_fails(sreq, idx + 1)
       THEN /\ spc' = "failed" /\ sresult' = HttpError(500)
            /\ UNCHANGED <<idx, processed_images>>
       ELSE /\ processed_images' =
                   append_page(processed_images, process_page(sreq, idx + 1))
            /\ idx' = idx + 1
            /\ UNCHANGED <<spc, sresult>>
    /\ UNCHANGED sreq
    /\ UNCHANGED notScan

\* Pillow knows the format name 'JPEG' but not 'JPG': save(format='JPG')
\* raises KeyError
pil_save_raises(fmt) == fmt = "JPG"

\* lines 264-354: assemble the output, store it, save the record, return.
\* Both the HTTPException(400) for several pages in a single-image format and
\* an exception of save() end in the except at line 356, which raises 500.
ScanOutput ==
    /\ spc = "pages" /\ idx = Len(sreq.files)
    /\ IF sreq.fmt # "PDF" /\ (Len(processed_images) > 1 \/ pil_save_raises(sreq.fmt))
       THEN spc' = "failed" /\ sresult' = HttpError(500)
       ELSE /\ spc' = "done"
            /\ sresult' = [success |-> TRUE, status |-> 200,
                           pages |-> IF sreq.fmt = "PDF" THEN processed_images
                                     ELSE <<processed_images[1]>>,
                           page_errors |-> <<>>, stored |-> TRUE, saved |-> TRUE]
    /\ UNCHANGED <<sreq, idx, processed_images>>
    /\ UNCHANGED notScan

ScanNext ==
    \/ ScanStart
    \/ ScanPage
    \/ ScanOutput

InitScan ==
    GeomIdle /\ EncIdle /\ ScanInit /\ OrderIdle /\ BlendIdle /\ RefineIdle
      /\ LaterIdle

SpecScan == InitScan /\ [][ScanNext]_vars

(***************************************************************************)
(* Claims about scan_to_pdf (checked under SpecScan)                       *)
(***************************************************************************)
Decodable(r) == {i \in 1..Len(r.files) : r.files[i] # "undecodable"}
ScanFinished == spc \in {"done", "failed"}

\* C3: when a batch contains a page whose bytes cannot be decoded, the request
\* still succeeds: every decodable page is processed and included in the
\* output, and the undecodable page is reported as a per-page failure.
C3_PartialFailure ==
    (/\ ScanFinished /\ sreq.fmt = "PDF"
     /\ Decodable(sreq) # {} /\ Decodable(sreq) # 1..Len(sreq.files)) =>
        /\ sresult.success
        /\ {sresult.pages[k].page : k \in 1..Len(sresult.pages)} = Decodable(sreq)
        /\ {sresult.page_errors[k] : k \in 1..Len(sresult.page_errors)}
              = (1..Len(sreq.files)) \ Decodable(sreq)


\* C13: a scan request with more than one page and a single-image output
\* format (PNG or JPG) is rejected with HTTP 400 as raised, and no output
\* file is written and no scan record is saved for it.
C13_MultiPageSingleImageRejected400 ==
    (/\ ScanFinished /\ sreq.fmt # "PDF" /\ Len(sreq.files) > 1
     /\ Decodable(sreq) = 1..Len(sreq.files)) =>
        /\ ~sresult.success /\ sresult.status = 400
        /\ ~sresult.stored /\ ~sresult.saved

\* C24: a page for which polygon approximation does not yield exactly four
\* points, for which edge detection fails, or for which the perspective
\* transform raises, is not perspective-corrected but is still enhanced and
\* included in the output with its original geometry; this never produces an
\* error.
C24_UncorrectablePageKept ==
    /\ \A k \in 1..Len(processed_images) :
          sreq.files[k] \in {"noquad", "edgefail", "warpfail"} =>
              /\ processed_images[k].page = k
              /\ ~processed_images[k].corrected
              /\ processed_images[k].enhancement = sreq.enhancement
    /\ (/\ ScanFinished /\ sreq.fmt = "PDF" /\ Len(sreq.files) \in 1..MaxPagesAllowed
        /\ \A i \in 1..Len(sreq.files) : sreq.files[i] # "undecodable") =>
           /\ sresult.success
           /\ sresult.pages = processed_images
           /\ Len(sresult.pages) = Len(sreq.files)

\* a finished PDF of three pages with OpenCV and auto_crop on: one page
\* without a quadrilateral, one with failing edge detection, one with a
\* raising transform
C24_Witness ==
    /\ spc = "done" /\ sreq.fmt = "PDF" /\ sreq.cv2 /\ sreq.auto_crop
    /\ sreq.files = <<"noquad", "edgefail", "warpfail">>
    /\ sresult.success /\ Len(sresult.pages) = 3
    /\ \A k \in 1..3 : ~sresult.pages[k].corrected

\* C25: for a successful scan_to_pdf request with PDF output, the output
\* contains exactly one page per input file and the i-th output page is the
\* processed i-th input file, for every batch size (explored from 1 to
\* MaxFiles).
C25_PagesInInputOrder ==
    (spc = "done" /\ sreq.fmt = "PDF") =>
        /\ Len(sresult.pages) = Len(sreq.files)
        /\ \A i \in 1..Len(sreq.files) :
              /\ sresult.pages[i].page = i
              /\ sresult.pages[i].corrected =
                    (sreq.cv2 /\ sreq.auto_crop /\ sreq.files[i] = "quad")

\* a full batch whose first page alone was perspective-corrected
C25_Witness ==
    /\ spc = "done" /\ sreq.fmt = "PDF" /\ Len(sreq.files) = MaxFiles
    /\ sreq.files[1] = "quad" /\ sreq.files[2] = "noquad"
    /\ sresult.pages[1].corrected /\ ~sresult.pages[2].corrected
    /\ sresult.pages[MaxFiles].page = MaxFiles

(***************************************************************************)
(* Corner ordering: _order_points                                          *)
(***************************************************************************)
GridMax == 2
GridPoints == {<<x, y>> : x \in 0..GridMax, y \in 0..GridMax}

\* np.argmin / np.argmax: the first index of the least / greatest value
ArgMin(v) == CHOOSE i \in 1..Len(v) :
                /\ \A j \in 1..Len(v) : v[i] <= v[j]
                /\ \A j \in 1..(i - 1) : v[j] > v[i]
ArgMax(v) == CHOOSE i \in 1..Len(v) :
                /\ \A j \in 1..Len(v) : v[i] >= v[j]
                /\ \A j \in 1..(i - 1) : v[j] < v[i]

\* order_points with the difference taken as x - y
order_points_xy(p) ==
    LET sm   == [i \in 1..4 |-> p[i][1] + p[i][2]]
        diff == [i \in 1..4 |-> p[i][1] - p[i][2]]
    IN  <<p[ArgMin(sm)], p[ArgMin(diff)], p[ArgMax(sm)], p[ArgMax(diff)]>>

\* s = pts.sum(axis=1); diff = np.diff(pts, axis=1), which is y - x
order_points(p) ==
    LET sm   == [i \in 1..4 |-> p[i][1] + p[i][2]]
        diff == [i \in 1..4 |-> p[i][2] - p[i][1]]
    IN  <<p[ArgMin(sm)], p[ArgMin(diff)], p[ArgMax(sm)], p[ArgMax(diff)]>>

\* the list rotated left by k places
Rotated(p, k) == [i \in 1..4 |-> p[((i + k - 1) % 4) + 1]]

\* the four corners approxPolyDP hands over are distinct points
OrderInit ==
    /\ opc = "detected"
    /\ pts \in {p \in [1..4 -> GridPoints] : \A i, j \in 1..4 : i # j => p[i] # p[j]}
    /\ rect = <<>> /\ rectAgain = <<>> /\ rectRotated = <<>>

\* line 208: rect = self._order_points(edges)
OrderOnce ==
    /\ opc = "detected"
    /\ rect' = order_points(pts)
    /\ opc' = "ordered"
    /\ UNCHANGED <<pts, rectAgain, rectRotated>>
    /\ UNCHANGED notOrder

\* _order_points applied to its own result
OrderAgain ==
    /\ opc = "ordered" /\ rectAgain = <<>>
    /\ rectAgain' = order_points(rect)
    /\ UNCHANGED <<opc, pts, rect, rectRotated>>
    /\ UNCHANGED notOrder

\* _order_points applied to the same corners listed from another start
OrderRotated ==
    /\ opc = "ordered" /\ rectRotated = <<>>
    /\ \E k \in 1..3 : rectRotated' = order_points(Rotated(pts, k))
    /\ UNCHANGED <<opc, pts, rect, rectAgain>>
    /\ UNCHANGED notOrder

OrderNext ==
    \/ OrderOnce
    \/ OrderAgain
    \/ OrderRotated

InitOrder ==
    GeomIdle /\ EncIdle /\ ScanIdle /\ OrderInit /\ BlendIdle /\ RefineIdle
      /\ LaterIdle

SpecOrder == InitOrder /\ [][OrderNext]_vars

\* C4: for every list of four 2D points, _order_points is idempotent
\* (ordering its own result changes nothing) and rotation-invariant (a
\* cyclically rotated input list gives the same output), also when two points
\* share the same x+y sum or the same coordinate difference.
C4_IdempotentRotationInvariant ==
    /\ rectAgain # <<>> => rectAgain = rect
    /\ rectRotated # <<>> => rectRotated = rect


PointsOf(p) == {p[i] : i \in 1..4}
SumOf(q) == q[1] + q[2]
XMinusY(q) == q[1] - q[2]
YMinusX(q) == q[2] - q[1]

\* C17 as stated: _order_points returns [top-left, top-right, bottom-right,
\* bottom-left] with top-left the minimum of x+y, bottom-right the maximum of
\* x+y, top-right the minimum of the difference x-y and bottom-left the
\* maximum of x-y.
C17_RolesWithXMinusY ==
    opc = "ordered" =>
        /\ rect[1] \in PointsOf(pts) /\ \A q \in PointsOf(pts) : SumOf(rect[1]) <= SumOf(q)
        /\ rect[3] \in PointsOf(pts) /\ \A q \in PointsOf(pts) : SumOf(rect[3]) >= SumOf(q)
        /\ rect[2] \in PointsOf(pts) /\ \A q \in PointsOf(pts) : XMinusY(rect[2]) <= XMinusY(q)
        /\ rect[4] \in PointsOf(pts) /\ \A q \in PointsOf(pts) : XMinusY(rect[4]) >= XMinusY(q)

\* C17 amended: the difference is y-x (np.diff along the coordinate axis):
\* top-right is a point of minimum y-x and bottom-left a point of maximum
\* y-x; top-left and bottom-right are points of minimum and maximum x+y.
C17_RolesWithYMinusX ==
    opc = "ordered" =>
        /\ rect[1] \in PointsOf(pts) /\ \A q \in PointsOf(pts) : SumOf(rect[1]) <= SumOf(q)
        /\ rect[3] \in PointsOf(pts) /\ \A q \in PointsOf(pts) : SumOf(rect[3]) >= SumOf(q)
        /\ rect[2] \in PointsOf(pts) /\ \A q \in PointsOf(pts) : YMinusX(rect[2]) <= YMinusX(q)
        /\ rect[4] \in PointsOf(pts) /\ \A q \in PointsOf(pts) : YMinusX(rect[4]) >= YMinusX(q)

\* the axis-aligned rectangle (0,0),(2,0),(2,1),(0,1), listed from its
\* bottom-left corner, was ordered into four distinct corners
C17_Witness ==
    /\ opc = "ordered"
    /\ pts = <<<<0, 1>>, <<0, 0>>, <<2, 0>>, <<2, 1>>>>
    /\ rect = <<<<0, 0>>, <<2, 0>>, <<2, 1>>, <<0, 1>>>>

(***************************************************************************)
(* Compositing over a replacement colour, for one pixel                    *)
(***************************************************************************)
PixelSamples ==
    {<<v, v, v>> : v \in 0..255} \cup {<<12, 130, 254>>, <<1, 127, 128>>}
BackgroundSamples == {<<255, 255, 255>>, <<255, 0, 0>>, <<0, 0, 0>>, <<18, 52, 86>>}
AlphaSamples == {0, 1, 127, 128, 254, 255}

\* Pillow's division by 255 of its alpha compositing
ShiftForDiv255(a) == (((a \div 256) + a) \div 256)

\* one channel of Image.alpha_composite(background.convert('RGBA'), image)
\* followed by convert('RGB'): source s with alpha a over an opaque d
composite_channel_swapped(s, a, d) ==
    IF a = 0 THEN s
    ELSE LET coef1 == (a * 255 * 255 * 128) \div (a * 255 + 255 * (255 - a))
             coef2 == 255 * 128 - coef1
         IN  ShiftForDiv255(d * coef1 + s * coef2 + 128 * 128) \div 128
composite_channel(s, a, d) ==
    IF a = 0 THEN d
    ELSE LET coef1 == (a * 255 * 255 * 128) \div (a * 255 + 255 * (255 - a))
             coef2 == 255 * 128 - coef1
         IN  ShiftForDiv255(s * coef1 + d * coef2 + 128 * 128) \div 128

\* _apply_background_color on an RGBA pixel
apply_background_color(px, a, bg) ==
    [i \in 1..3 |-> composite_channel(px[i], a, bg[i])]

\* the contour fallback, line 402, for one channel: pixel * mask +
\* colour * (1 - mask) with mask = m / 255 in float32, truncated by the store
\* into a uint8 array.  For mask 0.0 and 1.0 the arithmetic is exact; for a
\* partial mask whose exact blend is a whole number the float32 sum may fall
\* just below it, so both truncations are outcomes.
fallback_channel(p, m, b) ==
    LET num == p * m + b * (255 - m)
    IN  IF m \notin {0, 255} /\ num > 0 /\ num % 255 = 0
        THEN {num \div 255, (num \div 255) - 1}
        ELSE {num \div 255}

fallback_blend(px, m, bg) ==
    {<<x, y, z>> : x \in fallback_channel(px[1], m, bg[1]),
                   y \in fallback_channel(px[2], m, bg[2]),
                   z \in fallback_channel(px[3], m, bg[3])}

BlendInit ==
    /\ bpc = "matte"
    /\ \E px \in PixelSamples, a \in AlphaSamples, bg \in BackgroundSamples :
         breq = [pixel |-> px, alpha |-> a, color |-> bg]
    /\ blendOut = [primary |-> <<>>, fallback |-> <<>>]

\* lines 276-278: the segmentation path composites with _apply_background_color
BlendPrimary ==
    /\ bpc = "matte" /\ blendOut.primary = <<>>
    /\ blendOut' = [blendOut EXCEPT
                      !.primary = apply_background_color(breq.pixel, breq.alpha, breq.color)]
    /\ UNCHANGED <<bpc, breq>>
    /\ UNCHANGED notBlend

\* lines 398-403: the contour fallback blends with the mask
BlendFallback ==
    /\ bpc = "matte" /\ blendOut.fallback = <<>>
    /\ \E out \in fallback_blend(breq.pixel, breq.alpha, breq.color) :
         blendOut' = [blendOut EXCEPT !.fallback = out]
    /\ UNCHANGED <<bpc, breq>>
    /\ UNCHANGED notBlend

BlendNext ==
    \/ BlendPrimary
    \/ BlendFallback

InitBlend ==
    GeomIdle /\ EncIdle /\ ScanIdle /\ OrderIdle /\ BlendInit /\ RefineIdle
      /\ LaterIdle

SpecBlend == InitBlend /\ [][BlendNext]_vars

\* C7: for a fully opaque matte (alpha 255, mask 1), compositing over any
\* replacement colour returns the original RGB value at every pixel, in the
\* alpha-composite path and in the contour-fallback blend.
C7_OpaqueMatteKeepsPixel ==
    breq.alpha = 255 =>
        /\ blendOut.primary # <<>> => blendOut.primary = breq.pixel
        /\ blendOut.fallback # <<>> => blendOut.fallback = breq.pixel

\* an opaque pixel went through both paths over a colour that differs from it
C7_Witness ==
    /\ breq.alpha = 255
    /\ \A i \in 1..3 : breq.pixel[i] # breq.color[i]
    /\ blendOut.primary = breq.pixel /\ blendOut.fallback = breq.pixel


(***************************************************************************)
(* Guided-filter refinement of the alpha channel, on a one-row image.      *)
(* Floating-point values are carried in fixed point: luminance and matte   *)
(* in units of 1/255, their products in units of 1/255^2, the coefficient  *)
(* a in units of 1/FixedPoint, b and the refined alpha in units of         *)
(* 1/(255 * FixedPoint).                                                   *)
(***************************************************************************)
RowLen == 3
ByteMax == 255
FixedPoint == 1000
Radius == 4
\* eps = 0.01 in units of 1/255^2
EpsScaled == (ByteMax * ByteMax) \div 100
One == ByteMax * FixedPoint
ByteSamples == {0, 128, 255}
Rows == [1..RowLen -> ByteSamples]

\* cv2.borderInterpolate for BORDER_REFLECT_101, 0-based position p
RECURSIVE Reflect101(_, _)
Reflect101(pos, len) ==
    IF len = 1 THEN 0
    ELSE IF pos < 0 THEN Reflect101(-pos, len)
    ELSE IF pos >= len THEN Reflect101(2 * len - 2 - pos, len)
    ELSE pos

RECURSIVE SumTaps(_, _, _)
SumTaps(x, i, k) ==
    IF k > Radius THEN 0
    ELSE x[Reflect101(i - 1 + k, Len(x)) + 1] + SumTaps(x, i, k + 1)

\* an array as an explicit tuple of its values
AsRow(f) == SubSeq(f, 1, Len(f))

\* cv2.boxFilter(img, -1, (2r+1, 2r+1)), normalised; the rows of a one-row
\* image all reflect onto that row, so the mean runs over 2r+1 columns
box_filter(x) ==
    AsRow([i \in 1..Len(x) |-> SumTaps(x, i, -Radius) \div (2 * Radius + 1)])

Times(x, y) == AsRow([i \in 1..Len(x) |-> x[i] * y[i]])

Clip01Identity(x) == x
\* np.clip(alpha_refined, 0, 1)
Clip01(x) == [i \in 1..Len(x) |-> Max(0, Min(One, x[i]))]

\* lines 337-351
guided_filter(gray, alpha_smooth) ==
    LET mean_I == box_filter(gray)
        mean_p == box_filter(alpha_smooth)
        corr_Ip == box_filter(Times(gray, alpha_smooth))
        cov_Ip == AsRow([i \in 1..Len(gray) |-> corr_Ip[i] - mean_I[i] * mean_p[i]])
        mean_II == box_filter(Times(gray, gray))
        var_I == AsRow([i \in 1..Len(gray) |-> mean_II[i] - mean_I[i] * mean_I[i]])
        a == AsRow([i \in 1..Len(gray) |->
                      (cov_Ip[i] * FixedPoint) \div (var_I[i] + EpsScaled)])
        b == AsRow([i \in 1..Len(gray) |->
                      mean_p[i] * FixedPoint - a[i] * mean_I[i]])
        mean_a == box_filter(a)
        mean_b == box_filter(b)
    IN  [i \in 1..Len(gray) |-> mean_a[i] * gray[i] + mean_b[i]]

\* (alpha_refined * 255).astype(np.uint8), for a value inside [0, 1]
to_byte(v) == (v * ByteMax) \div One

RefineInit ==
    /\ rpc = "filter"
    /\ \E g \in Rows, p \in Rows : rreq = [gray |-> g, alpha_smooth |-> p]
    /\ alphaRaw = <<>> /\ alphaRefined = <<>> /\ alphaByte = <<>>

\* lines 337-351: the raw guided-filter output
RefineFilter ==
    /\ rpc = "filter"
    /\ alphaRaw' = guided_filter(rreq.gray, rreq.alpha_smooth)
    /\ rpc' = "clip"
    /\ UNCHANGED <<rreq, alphaRefined, alphaByte>>
    /\ UNCHANGED notRefine

\* line 352
RefineClip ==
    /\ rpc = "clip"
    /\ alphaRefined' = Clip01(alphaRaw)
    /\ rpc' = "write"
    /\ UNCHANGED <<rreq, alphaRaw, alphaByte>>
    /\ UNCHANGED notRefine

\* line 355
RefineWrite ==
    /\ rpc = "write"
    /\ alphaByte' = [i \in 1..Len(alphaRefined) |-> to_byte(alphaRefined[i])]
    /\ rpc' = "done"
    /\ UNCHANGED <<rreq, alphaRaw, alphaRefined>>
    /\ UNCHANGED notRefine

RefineNext ==
    \/ RefineFilter
    \/ RefineClip
    \/ RefineWrite

InitRefine ==
    GeomIdle /\ EncIdle /\ ScanIdle /\ OrderIdle /\ BlendIdle /\ RefineInit
      /\ LaterIdle

SpecRefine == InitRefine /\ [][RefineNext]_vars

\* C8: every alpha value the guided-filter refinement produces lies in [0,1]
\* before it is written back, so every stored alpha byte is in 0..255,
\* whatever the matte and luminance values are.
C8_RefinedAlphaInUnitRange ==
    /\ rpc \in {"write", "done"} =>
         \A i \in 1..RowLen : alphaRefined[i] >= 0 /\ alphaRefined[i] <= One
    /\ rpc = "done" =>
         \A i \in 1..RowLen : alphaByte[i] \in 0..ByteMax

\* the raw filter output undershot 0 at a pixel, the clamp pinned it there and
\* the byte was written
C8_Witness ==
    /\ rpc = "done"
    /\ \E i \in 1..RowLen :
         alphaRaw[i] < 0 /\ alphaRefined[i] = 0 /\ alphaByte[i] = 0


(***************************************************************************)
(* What requests leave on disk and in the database                         *)
(***************************************************************************)
MaxRequests == 3
Ids == 1..MaxRequests
NotFound == <<>>

\* file_extension of the stored file, process_image line 631
stored_extension(fmt) == IF fmt = "PDF" THEN "pdf" ELSE
                         IF fmt = "PNG" THEN "png" ELSE "jpg"

\* get_scanned_file: the first extension in the order the code probes for
\* which a file of that id exists
RECURSIVE first_existing(_, _, _)
first_existing(dir, id, exts) ==
    IF exts = <<>> THEN NotFound
    ELSE IF <<id, Head(exts)>> \in dir THEN <<id, Head(exts)>>
    ELSE first_existing(dir, id, Tail(exts))

\* where process_image stores its output, __init__ line 59
ProcessedFilesDir == "processed_files"
\* the directory glob.glob("*<file_id>*") searches: the working directory
GlobDir == "."

\* get_processed_file as the class defines it: the definition of lines
\* 826-880 replaces that of lines 704-731.  It probes temp_output/, output/,
\* processed/ and the working directory for a file named exactly file_id
\* (no stored file has that name: each carries an extension), then takes the
\* first name containing file_id in the working directory; dir holds the
\* files <file_id>.<ext> of ProcessedFilesDir
get_processed_file(dir, id) ==
    IF ProcessedFilesDir = GlobDir /\ (\E f \in dir : f[1] = id)
    THEN CHOOSE f \in dir : f[1] = id
    ELSE NotFound

\* what a lookup leaves in `lookup`: whose file was asked for and the answer
Answer(kind, id, found) == [kind |-> kind, id |-> id, found |-> found]

StoreInit == StoreIdle

\* process_image, lines 486 and 631-684: a fresh file_id; on success the
\* output is written to processed_files/, a thumbnail is written for image
\* formats (failure swallowed) and a history row is saved (failure swallowed)
StoreProcessImage ==
    /\ issued < MaxRequests
    /\ issued' = issued + 1
    /\ \E fmt \in {"JPG", "PNG", "PDF"}, ok \in BOOLEAN,
          thumbOk \in BOOLEAN, dbOk \in BOOLEAN :
         IF ok
         THEN /\ processed_files' =
                    processed_files \cup {<<issued + 1, stored_extension(fmt)>>}
              /\ thumbnails' = IF fmt # "PDF" /\ thumbOk
                               THEN thumbnails \cup {issued + 1} ELSE thumbnails
              /\ history' = IF dbOk
                            THEN history \cup {[kind |-> "photo", id |-> issued + 1]}
                            ELSE history
         ELSE UNCHANGED <<processed_files, thumbnails, history>>
    /\ UNCHANGED <<scanned_docs, lookup>>
    /\ UNCHANGED notStore

\* scan_to_pdf, lines 172 and 307-338
StoreScanToPdf ==
    /\ issued < MaxRequests
    /\ issued' = issued + 1
    /\ \E fmt \in {"JPG", "PNG", "PDF"}, ok \in BOOLEAN, dbOk \in BOOLEAN :
         IF ok /\ ~pil_save_raises(fmt)
         THEN /\ scanned_docs' =
                    scanned_docs \cup {<<issued + 1, stored_extension(fmt)>>}
              /\ history' = IF dbOk
                            THEN history \cup {[kind |-> "scan", id |-> issued + 1]}
                            ELSE history
         ELSE UNCHANGED <<scanned_docs, history>>
    /\ UNCHANGED <<processed_files, thumbnails, lookup>>
    /\ UNCHANGED notStore

\* a later request: GET /photo-editor/download/{file_id}
StoreGetProcessedFile ==
    /\ \E id \in Ids :
         lookup' = Answer("photo", id, get_processed_file(processed_files, id))
    /\ UNCHANGED <<processed_files, thumbnails, scanned_docs, history, issued>>
    /\ UNCHANGED notStore

\* a later request: GET /document-scanner/download/{scan_id}
StoreGetScannedFile ==
    /\ \E id \in Ids :
         lookup' = Answer("scan", id,
                          first_existing(scanned_docs, id, <<"pdf", "png", "jpg">>))
    /\ UNCHANGED <<processed_files, thumbnails, scanned_docs, history, issued>>
    /\ UNCHANGED notStore

StoreNext ==
    \/ StoreProcessImage
    \/ StoreScanToPdf
    \/ StoreGetProcessedFile
    \/ StoreGetScannedFile

InitStore == FirstIdle /\ StoreInit /\ RmbgIdle /\ ValidateIdle /\ LastIdle

SpecStore == InitStore /\ [][StoreNext]_vars

\* C11: a processing request (process_image or scan_to_pdf) leaves no state
\* behind: no file and no record it created persists, and nothing of it is
\* visible to a later request.
C11_NoStateLeftBehind ==
    /\ processed_files = {} /\ thumbnails = {} /\ scanned_docs = {}
    /\ history = {}
    /\ lookup # <<>> => lookup.found = NotFound

\* C26: after process_image returns success with file_id F for any output
\* format (JPG, PNG, PDF), a later get_processed_file(F) returns the path of
\* the file process_image stored for F (with the matching content type), so
\* the download endpoint does not answer 404.
C26_StoredFileIsFound ==
    (/\ lookup # <<>> /\ lookup.kind = "photo"
     /\ \E f \in processed_files : f[1] = lookup.id) =>
        /\ lookup.found # NotFound
        /\ lookup.found \in processed_files
        /\ lookup.found[1] = lookup.id


(***************************************************************************)
(* _remove_background and its contour fallback.  A call either returns an  *)
(* image or raises; an image is its mode, how its matte was made and the   *)
(* colour it was composited over (NoColor if none).                        *)
(***************************************************************************)
Returned(im) == [raised |-> FALSE, image |-> im]
Raises == [raised |-> TRUE, image |-> <<>>]
InputImage == [mode |-> "RGB", matte |-> "none", refined |-> FALSE, over |-> NoColor]

\* the steps of the primary path that can raise: none, the downscale, the
\* PNG encode, rembg's remove, Image.open, the resize back, convert('RGBA')
PrimarySteps == {"none", "resize", "encode", "remove", "open", "resize_back", "convert"}

RmbgRequests ==
    [backend : BOOLEAN, primaryRaisesAt : PrimarySteps, refineRaises : BOOLEAN,
     compositeRaises : BOOLEAN, fallbackRaises : BOOLEAN,
     color : {NoColor, Red, NamedRed}]

\* _refine_background_edges: its own except returns the image unrefined
refine_background_edges(im, raises) ==
    IF raises THEN im ELSE [im EXCEPT !.refined = TRUE]

\* _apply_background_color: its own except returns image.convert('RGB')
apply_background_color_to(im, bg, raises) ==
    IF raises THEN [im EXCEPT !.mode = "RGB"]
    ELSE [im EXCEPT !.mode = "RGB", !.over = bg]

\* lines 241-280, inside the try of _remove_background
primary_path(r) ==
    IF r.primaryRaisesAt # "none" THEN Raises
    ELSE LET seg == [mode |-> "RGBA", matte |-> "segmented",
                     refined |-> FALSE, over |-> NoColor]
             ref == refine_background_edges(seg, r.refineRaises)
         IN  IF r.color # NoColor
             THEN Returned(apply_background_color_to(
                      ref, parse_background_color(r.color), r.compositeRaises))
             ELSE Returned(ref)

\* lines 365-409, inside the try of _optimized_basic_background_removal
basic_removal_body(r) ==
    IF r.fallbackRaises THEN Raises
    ELSE IF r.color # NoColor
         THEN Returned([mode |-> "RGB", matte |-> "contour", refined |-> FALSE,
                        over |-> parse_background_color(r.color)])
         ELSE Returned([mode |-> "RGBA", matte |-> "contour", refined |-> FALSE,
                        over |-> NoColor])

\* the fallback without its except clause
optimized_basic_unguarded(r) == basic_removal_body(r)
\* _optimized_basic_background_removal: except Exception returns the input
optimized_basic_background_removal(r) ==
    IF basic_removal_body(r).raised THEN Returned(InputImage)
    ELSE basic_removal_body(r)

RmbgInit ==
    /\ mpc = "primary"
    /\ mreq \in RmbgRequests
    /\ mresult = <<>>

\* lines 240-283: the primary path when the session exists; an exception is
\* printed and control falls through to the fallback
RmbgPrimary ==
    /\ mpc = "primary"
    /\ IF mreq.backend /\ ~primary_path(mreq).raised
       THEN mresult' = primary_path(mreq) /\ mpc' = "done"
       ELSE mpc' = "fallback" /\ UNCHANGED mresult
    /\ UNCHANGED mreq
    /\ UNCHANGED notRmbg

\* line 286
RmbgFallback ==
    /\ mpc = "fallback"
    /\ mresult' = optimized_basic_background_removal(mreq)
    /\ mpc' = "done"
    /\ UNCHANGED mreq
    /\ UNCHANGED notRmbg

RmbgNext ==
    \/ RmbgPrimary
    \/ RmbgFallback

InitRmbg == FirstIdle /\ StoreIdle /\ RmbgInit /\ ValidateIdle /\ LastIdle

SpecRmbg == InitRmbg /\ [][RmbgNext]_vars

\* C12: _remove_background never raises and always returns an image; with
\* the backend absent or a raising primary path the result is the contour
\* fallback's, and when the fallback raises too it is the input unchanged.
C12_NeverRaises ==
    /\ mpc # "done" => ENABLED RmbgNext
    /\ mpc = "done" =>
         /\ ~mresult.raised /\ mresult.image # <<>>
         /\ (~mreq.backend \/ mreq.primaryRaisesAt # "none") =>
              IF mreq.fallbackRaises
              THEN mresult.image = InputImage
              ELSE mresult.image.matte = "contour"

\* the backend raised at rembg's remove, the fallback raised too, and the
\* caller got its input back
C12_Witness ==
    /\ mpc = "done" /\ mreq.backend /\ mreq.primaryRaisesAt = "remove"
    /\ mreq.fallbackRaises
    /\ mresult = Returned(InputImage)

\* C23: on every path through _remove_background (primary segmentation path
\* and contour fallback) the result is an opaque RGB image when a replacement
\* colour is given, and an RGBA image carrying the matte as alpha when no
\* replacement colour is given.
C23_ModeFollowsColour ==
    mpc = "done" =>
        IF mreq.color # NoColor
        THEN mresult.image.mode = "RGB"
        ELSE mresult.image.mode = "RGBA" /\ mresult.image.matte # "none"


(***************************************************************************)
(* Validation of the form fields of POST /process-single                   *)
(***************************************************************************)
\* Form(200, ge=50, le=4000) for width and height
FormDimGe == 50
FormDimLe == 4000
\* Form(None, ge=50, le=2048) for max_file_size_kb
FormSizeGe == 50
FormSizeLe == 2048

DimSamples == {49, 50, 200, 4000, 4001}
Absent == [present |-> FALSE, kb |-> 0]
Given(kb) == [present |-> TRUE, kb |-> kb]
LimitSamples == {Absent} \cup {Given(kb) : kb \in {9, 10, 30, 49, 50, 2048, 2049}}

\* the constraints FastAPI checks before the endpoint body runs
form_valid(r) ==
    /\ FormDimGe <= r.width /\ r.width <= FormDimLe
    /\ FormDimGe <= r.height /\ r.height <= FormDimLe
    /\ r.limit.present => (FormSizeGe <= r.limit.kb /\ r.limit.kb <= FormSizeLe)

ValidateInit ==
    /\ vpc = "received"
    /\ \E w \in DimSamples, h \in DimSamples, l \in LimitSamples :
         vreq = [width |-> w, height |-> h, limit |-> l]
    /\ vresult = <<>>

\* a request failing a constraint is answered 422 and the endpoint never runs
ValidateForm ==
    /\ vpc = "received"
    /\ IF form_valid(vreq)
       THEN vpc' = "processing" /\ vresult' = [accepted |-> TRUE, processed |-> FALSE]
       ELSE vpc' = "rejected" /\ vresult' = [accepted |-> FALSE, processed |-> FALSE]
    /\ UNCHANGED vreq
    /\ UNCHANGED notValidate

\* lines 62-72: the endpoint body hands the accepted values to process_image
ValidateProcess ==
    /\ vpc = "processing"
    /\ vpc' = "done"
    /\ vresult' = [vresult EXCEPT !.processed = TRUE]
    /\ UNCHANGED vreq
    /\ UNCHANGED notValidate

ValidateNext ==
    \/ ValidateForm
    \/ ValidateProcess

InitValidate == FirstIdle /\ StoreIdle /\ RmbgIdle /\ ValidateInit /\ LastIdle

SpecValidate == InitValidate /\ [][ValidateNext]_vars

\* C15: a processing request is accepted exactly when width and height are
\* each in [50,4000] and max-output-size, when present, is in [10,2048] KB;
\* a request outside these ranges is rejected before any processing starts.
C15_AcceptedExactlyInRanges ==
    vpc # "received" =>
        LET inRanges ==
              /\ MinDimension <= vreq.width /\ vreq.width <= MaxDimension
              /\ MinDimension <= vreq.height /\ vreq.height <= MaxDimension
              /\ vreq.limit.present =>
                   (MinOutputSizeKb <= vreq.limit.kb /\ vreq.limit.kb <= MaxOutputSizeKb)
        IN  /\ vresult.accepted <=> inRanges
            /\ ~inRanges => ~vresult.processed


(***************************************************************************)
(* process_multiple_images and POST /photo-editor/process-batch            *)
(***************************************************************************)
BatchLimit == 10
MaxBatchFiles == 3

\* what process_image does with one file: returns its result, raises
\* HTTPException, or raises another exception
FileOutcomes == {"ok", "http_error", "exception"}
BatchFile(i, o) == [name |-> i, outcome |-> o]
\* every batch of up to MaxBatchFiles files, and one of BatchLimit + 1 files
BatchFileLists ==
    {[i \in 1..Len(os) |-> BatchFile(i, os[i])] :
        os \in UNION {[1..m -> FileOutcomes] : m \in 0..MaxBatchFiles}}
      \cup {[i \in 1..(BatchLimit + 1) |-> BatchFile(i, "ok")]}

\* the entry one file leaves in `results`, lines 765-791
result_entry(f) ==
    IF f.outcome = "ok"
    THEN [success |-> TRUE, original_filename |-> f.name, file_id |-> f.name]
    ELSE [success |-> FALSE, original_filename |-> f.name, file_id |-> 0]

\* a loop body without the two except clauses that record a failure
collect_result_successes_only(rs, f) ==
    IF f.outcome = "ok" THEN Append(rs, result_entry(f)) ELSE rs
\* lines 764-791: results.append(...) in the try and in both excepts
collect_result(rs, f) == Append(rs, result_entry(f))

\* the endpoint's loop over results, lines 131-161
RECURSIVE count_where(_, _)
count_where(rs, flag) ==
    IF rs = <<>> THEN 0
    ELSE (IF Head(rs).success = flag THEN 1 ELSE 0) + count_where(Tail(rs), flag)
batch_response(files, rs) ==
    [status |-> 200, total_files |-> Len(files),
     successful |-> count_where(rs, TRUE), failed |-> count_where(rs, FALSE),
     results |-> rs]

BatchInit ==
    /\ kpc = "start"
    /\ kfiles \in BatchFileLists
    /\ kidx = 0 /\ kresults = <<>> /\ kresponse = <<>>

\* endpoint line 110 and service line 760: more than 10 files is a 400
BatchStart ==
    /\ kpc = "start"
    /\ IF Len(kfiles) > BatchLimit
       THEN kpc' = "failed" /\ kresponse' = [status |-> 400]
       ELSE kpc' = "files" /\ UNCHANGED kresponse
    /\ UNCHANGED <<kfiles, kidx, kresults>>
    /\ UNCHANGED notBatch

\* one iteration of `for file in files`, lines 764-791
BatchFileStep ==
    /\ kpc = "files" /\ kidx < Len(kfiles)
    /\ kresults' = collect_result(kresults, kfiles[kidx + 1])
    /\ kidx' = kidx + 1
    /\ UNCHANGED <<kpc, kfiles, kresponse>>
    /\ UNCHANGED notBatch

\* the endpoint builds the BatchProcessResponse, lines 127-168
BatchRespond ==
    /\ kpc = "files" /\ kidx = Len(kfiles)
    /\ kresponse' = batch_response(kfiles, kresults)
    /\ kpc' = "done"
    /\ UNCHANGED <<kfiles, kidx, kresults>>
    /\ UNCHANGED notBatch

BatchNext ==
    \/ BatchStart
    \/ BatchFileStep
    \/ BatchRespond

InitBatch ==
    FirstIdle /\ StoreIdle /\ RmbgIdle /\ ValidateIdle /\ BatchInit /\ OptIdle

SpecBatch == InitBatch /\ [][BatchNext]_vars

\* C27: for a batch of at most 10 files, process_multiple_images returns a
\* list with exactly one entry per input file in input order; a failure of
\* one file is recorded as an entry with success = false and does not prevent
\* the processing of the later files; and in the batch endpoint
\* successful + failed = total_files.
C27_OneEntryPerFile ==
    /\ \A i \in 1..Len(kresults) :
          /\ kresults[i].original_filename = kfiles[i].name
          /\ kresults[i].success = (kfiles[i].outcome = "ok")
    /\ (kpc = "done") =>
          /\ Len(kfiles) <= BatchLimit
          /\ Len(kresults) = Len(kfiles)
          /\ kresponse.status = 200
          /\ kresponse.total_files = Len(kfiles)
          /\ kresponse.successful + kresponse.failed = kresponse.total_files
          /\ kresponse.failed =
                Cardinality({i \in 1..Len(kfiles) : kfiles[i].outcome # "ok"})
    /\ (kpc # "done" /\ Len(kfiles) <= BatchLimit) => ENABLED BatchNext

\* a finished batch whose first file failed and whose last file succeeded
C27_Witness ==
    /\ kpc = "done" /\ Len(kfiles) = MaxBatchFiles
    /\ kfiles[1].outcome = "exception" /\ kfiles[2].outcome = "http_error"
    /\ kfiles[MaxBatchFiles].outcome = "ok"
    /\ ~kresults[1].success /\ kresults[MaxBatchFiles].success
    /\ kresponse.failed >= 2 /\ kresponse.successful >= 1


(***************************************************************************)
(* SizeOptimizerService.optimize_image: the quality loop                   *)
(***************************************************************************)
OptMinQuality == 20
OptQualityStep == 5
LightQuality == 85
MediumQuality == 70
AggressiveQuality == 50

\* self.compression_levels.get(level, self.compression_levels["medium"])
start_quality(level) ==
    IF level = "light" THEN LightQuality
    ELSE IF level = "aggressive" THEN AggressiveQuality
    ELSE MediumQuality

\* bytes the codec writes: JPEG grows with the quality, PNG ignores it
BytesPerQuality == {100, 1000}
PngBytes == 40960
OptEncodedSize(r, q) == IF r.fmt = "JPEG" THEN r.perQuality * q ELSE PngBytes
\* target_size_kb, 0 for None
OptTargets == {0, 1, 5, 30, 60, 100}

\* output_buffer.seek(0) followed by output_buffer.tell(): the position after
\* the seek, whatever was written
tell_after_seek0(written) == 0

OptRequests ==
    [level : {"light", "medium", "aggressive", "custom"},
     target_size_kb : OptTargets, fmt : {"JPEG", "PNG"},
     perQuality : BytesPerQuality]

OptInit ==
    /\ zpc = "start"
    /\ zreq \in OptRequests
    /\ current_quality = 0 /\ measured_size = 0 /\ optimized_data = -1

\* lines 116-119: compression settings and the start quality
OptStart ==
    /\ zpc = "start"
    /\ current_quality' = start_quality(zreq.level)
    /\ zpc' = IF zreq.target_size_kb # 0 THEN "loop" ELSE "plain"
    /\ UNCHANGED <<zreq, measured_size, optimized_data>>
    /\ UNCHANGED notOpt

\* lines 130-148: the loop test and one iteration of
\* `while current_quality >= min_quality`
OptLoopStep ==
    /\ zpc = "loop"
    /\ IF current_quality < OptMinQuality
       THEN /\ zpc' = "returning"
            /\ UNCHANGED <<current_quality, measured_size, optimized_data>>
       ELSE LET size == tell_after_seek0(OptEncodedSize(zreq, current_quality))
            IN  /\ measured_size' = size
                /\ IF size <= zreq.target_size_kb * 1024
                      \/ current_quality <= OptMinQuality
                   THEN /\ optimized_data' = current_quality
                        /\ zpc' = "returning"
                        /\ UNCHANGED current_quality
                   ELSE /\ current_quality' = current_quality - OptQualityStep
                        /\ UNCHANGED <<zpc, optimized_data>>
    /\ UNCHANGED zreq
    /\ UNCHANGED notOpt

\* lines 149-161: without a target, one encode at the level's quality
OptPlainEncode ==
    /\ zpc = "plain"
    /\ optimized_data' = current_quality
    /\ zpc' = "returning"
    /\ UNCHANGED <<zreq, current_quality, measured_size>>
    /\ UNCHANGED notOpt

\* lines 163-164 and the return: None is a 500, else the data is returned
\* with final_quality = current_quality
OptReturn ==
    /\ zpc = "returning"
    /\ zpc' = IF optimized_data = -1 THEN "failed" ELSE "done"
    /\ UNCHANGED <<zreq, current_quality, measured_size, optimized_data>>
    /\ UNCHANGED notOpt

OptNext ==
    \/ OptStart
    \/ OptLoopStep
    \/ OptPlainEncode
    \/ OptReturn

InitOpt ==
    FirstIdle /\ StoreIdle /\ RmbgIdle /\ ValidateIdle /\ BatchIdle /\ OptInit

SpecOpt == InitOpt /\ [][OptNext]_vars

\* the qualities the loop may try from a start quality, and the first of
\* them, going down, whose encoding fits the target (OptMinQuality if none)
QualitiesFrom(q0) ==
    {q \in OptMinQuality..q0 : (q0 - q) % OptQualityStep = 0}
FirstFitting(r) ==
    LET qs  == QualitiesFrom(start_quality(r.level))
        fit == {q \in qs : OptEncodedSize(r, q) <= r.target_size_kb * 1024}
    IN  IF fit = {} THEN OptMinQuality
        ELSE CHOOSE q \in fit : \A p \in fit : p <= q

\* C29: in optimize_image with target_size_kb set, the quality loop
\* terminates for every compression level (start quality 85, 70 or 50, step
\* -5) and always produces output data: it returns the first encoding, in
\* decreasing quality order, whose size is <= target_size_kb*1024, or the
\* encoding at quality 20 if none fits; the reported final_quality is never
\* below 20.
C29_FirstFittingQuality ==
    (zpc \notin {"idle", "start"} /\ zreq.target_size_kb # 0) =>
        /\ zpc # "failed"
        /\ current_quality >= OptMinQuality
        /\ zpc # "done" => ENABLED OptNext
        /\ zpc = "done" =>
             /\ optimized_data = current_quality
             /\ OptEncodedSize(zreq, optimized_data)
                   = OptEncodedSize(zreq, FirstFitting(zreq))

=============================================================================
